---- MODULE Spec2Model ----
(***************************************************************************)
(* A model of qagent: the tool-calling dialogue loop of SQLAgent           *)
(* (agent.py), the tool provider DuckDBTooling (duckdb_tools.py) and the   *)
(* optimize command (cli.py).                                              *)
(*                                                                         *)
(* Python strings that the code inspects (model text, SQL) are sequences   *)
(* of tokens; None is the one-token sequence NoneVal, distinct from the    *)
(* empty string << >>.  Measured times are integers (milliseconds).        *)
(***************************************************************************)
EXTENDS Integers, Sequences, FiniteSets, TLC

VARIABLES
    cfg,          \* the settings: max_tool_steps, max_iters, min_improve_pct, runs, warmup
    messages,     \* SQLAgent.messages, the transcript
    events,       \* run_tool_loop's local list events
    pc,           \* where the control is (see the actions)
    step,         \* iterations of run_tool_loop's for loop completed in this invocation
    pending,      \* tool_calls of the current step not yet dispatched
    final_text,   \* what run_tool_loop returned last (NoneVal before any return)
    it,           \* optimize's loop variable it, the round
    best_sql,     \* optimize's best_sql
    base_ms,      \* optimize's base_ms, the reference
    best_report,  \* optimize's best_report
    cand_sql,     \* optimize's cand_sql of the current round
    last,         \* what the last operation did: its kind and its inputs and results
    orig_ms,      \* the baseline's measured median (history)
    llm_calls,    \* responses_create calls made so far (history)
    bench_calls,  \* direct tooling.benchmark calls made by optimize so far (history)
    next_id       \* the number of the next function_call item the gateway issues

vars == <<cfg, messages, events, pc, step, pending, final_text, it, best_sql,
          base_ms, best_report, cand_sql, last, orig_ms, llm_calls, bench_calls,
          next_id>>

\* ------------------------------------------------------------------ bounds

\* max_tool_steps of the modelled runs (cli.py passes 35).
MaxSteps == 2
\* max_iters of the modelled runs.
MaxIters == 2
\* function_call items the gateway issues in one run.
MaxCalls == 2
\* items of one gateway response.
MaxItems == 2
\* measured times are multiples of 30 ms up to 30 * MaxMs.
MaxMs == 4
\* dot-separated parts of a relation name given to a tool.
MaxNameParts == 3

\* ------------------------------------------------------------------ strings

NoneVal == <<"<None>">>
EmptyStr == << >>

SentinelMut == NoneVal
SentinelKeywordMut == <<"Stopped: cannot", "select">>

\* agent.py:120, the text returned when the for loop runs out.
Sentinel == <<"Stopped: reached max_tool_steps.">>

IsSpace(tok) == tok \in {" ", "\n"}

\* str.lower() on one token.
Lower(tok) ==
    CASE tok = "SELECT" -> "select"
      [] tok = "<fence>SQL" -> "<fence>sql"
      [] OTHER -> tok

RECURSIVE LStrip(_)
LStrip(s) ==
    IF s # << >> /\ IsSpace(Head(s)) THEN LStrip(Tail(s)) ELSE s

RECURSIVE RStrip(_)
RStrip(s) ==
    IF s # << >> /\ IsSpace(s[Len(s)]) THEN RStrip(SubSeq(s, 1, Len(s) - 1)) ELSE s

\* str.strip()
Strip(s) == RStrip(LStrip(s))

\* "\n".join(chunks)
RECURSIVE JoinLines(_)
JoinLines(chunks) ==
    IF chunks = << >> THEN << >>
    ELSE IF Len(chunks) = 1 THEN chunks[1]
    ELSE chunks[1] \o <<"\n">> \o JoinLines(Tail(chunks))

\* [t for t in chunks if t.strip()]
NonBlank(chunks) == SelectSeq(chunks, LAMBDA t : Strip(t) # << >>)

\* The truth value of an Optional[str].
Truthy(s) == s # NoneVal /\ s # EmptyStr

\* agent.py:115
FinalTextOf(chunks) ==
    LET joined == Strip(JoinLines(NonBlank(chunks)))
    IN  IF joined = EmptyStr THEN NoneVal ELSE joined

\* ------------------------------------------------------------------ cli.py: extraction

\* A token at which the opening fence of SQL_BLOCK_RE matches (IGNORECASE);
\* the three backticks are written <fence>.
IsOpenFence(tok) == Lower(tok) = "<fence>sql"
\* A token at which the closing fence matches: any token that starts with one.
IsBackticks(tok) == Lower(tok) \in {"<fence>", "<fence>sql"}

\* SQL_BLOCK_RE.search(text): the leftmost opening fence that has a closing one
\* after it, with the nearest closing one (.*? is lazy); << >> when there is none.
SqlBlockSearch(text) ==
    LET opens == {i \in 1..Len(text) :
                     /\ IsOpenFence(text[i])
                     /\ \E j \in (i+1)..Len(text) : IsBackticks(text[j])}
    IN  IF opens = {} THEN << >>
        ELSE LET i == CHOOSE a \in opens : \A b \in opens : a <= b
                 j == CHOOSE a \in (i+1)..Len(text) :
                          /\ IsBackticks(text[a])
                          /\ \A b \in (i+1)..(a-1) : ~IsBackticks(text[b])
             IN  <<i, j>>

\* "select" in text.lower()
ContainsSelect(text) == \E i \in 1..Len(text) : Lower(text[i]) = "select"

ExtractFallbackMut(text) == Strip(text)

\* cli.py:25-28, the fallback when no fenced block was found.
ExtractFallback(text) ==
    IF ContainsSelect(text) THEN Strip(text) ELSE NoneVal

\* cli.py:19-28
ExtractSqlFromModel(text) ==
    IF ~Truthy(text) THEN NoneVal
    ELSE LET m == SqlBlockSearch(text)
         IN  IF m # << >> THEN Strip(SubSeq(text, m[1] + 1, m[2] - 1))
             ELSE ExtractFallback(text)

\* cli.py:86, out.get("final_text") or ""
OrEmpty(s) == IF Truthy(s) THEN s ELSE EmptyStr

\* ------------------------------------------------------------------ duckdb_tools.py

\* The catalog behind the connection: information_schema.tables, each table with
\* its schema and its name.
Catalog == {[schema |-> "main", table |-> <<"orders">>],
            [schema |-> "main", table |-> <<"customers">>],
            [schema |-> "staging", table |-> <<"orders">>]}

HasDotMut(name) == FALSE

\* A relation name is the sequence of its dot-separated parts.
HasDot(name) == Len(name) >= 2

\* An uncaught exception, as a value.
Raised(what) == [raised |-> what]
IsRaised(r) == "raised" \in DOMAIN r

\* duckdb_tools.py:31-41
ListTables == [ok |-> TRUE, tables |-> Catalog]

\* duckdb_tools.py:43-58; name.split(".", 1) is <<Head(name), Tail(name)>>.
TableExists(name) ==
    LET n == IF HasDot(name)
             THEN Cardinality({t \in Catalog :
                                  t.schema = Head(name) /\ t.table = Tail(name)})
             ELSE Cardinality({t \in Catalog : t.table = name})
    IN  [ok |-> TRUE, name |-> name, exists |-> n > 0]

\* information_schema.columns: the column names of a catalog table, by ordinal
\* position.
ColumnsOf(t) ==
    IF t = [schema |-> "main", table |-> <<"orders">>] THEN <<"id", "cid">> ELSE <<"id">>

\* duckdb_tools.py:60-94; every catalog table has columns.  A name with a dot
\* gives the columns of the one table of that schema (lines 86-88), a name
\* without dot gives the columns grouped by schema (lines 89-94), of which the
\* schemas are kept here.
DescribeRelation(name) ==
    LET rows == IF HasDot(name)
                THEN {t \in Catalog : t.schema = Head(name) /\ t.table = Tail(name)}
                ELSE {t \in Catalog : t.table = name}
    IN  IF rows = {}
        THEN [ok |-> FALSE, error |-> <<"Relation not found in catalog: ", name>>]
        ELSE IF HasDot(name)
        THEN [ok |-> TRUE, relation |-> name, columns |-> ColumnsOf(CHOOSE t \in rows : TRUE)]
        ELSE [ok |-> TRUE, relation |-> name, schemas |-> {t.schema : t \in rows}]

\* One execution by the engine: Failed when con.execute raises, else the
\* elapsed milliseconds.
Failed == -1

\* duckdb_tools.py:104-111
Explain(sql, outs) ==
    IF outs[1] = Failed
    THEN [ok |-> FALSE, error |-> <<"EXPLAIN failed: ", sql>>]
    ELSE [ok |-> TRUE, plan |-> sql]

\* duckdb_tools.py:113-137
ExplainAnalyze(sql, out) ==
    IF out = Failed
    THEN [ok |-> FALSE, error |-> <<"EXPLAIN ANALYZE failed: ", sql>>]
    ELSE [ok |-> TRUE, elapsed_ms_client |-> out]

\* range(n) has no element for n <= 0.
RangeLen(n) == IF n > 0 THEN n ELSE 0

\* The executions benchmark(sql, runs, warmup) can make.
Executions(runs, warmup) == RangeLen(warmup) + RangeLen(runs)

\* duckdb_tools.py:163, the index len(times_sorted) // 2, counted from 1.
MedianIndex(n) == (n \div 2) + 1

\* duckdb_tools.py:162-163; times[n // 2] of an empty list is an IndexError.
Median(times) ==
    LET sorted == SortSeq(times, LAMBDA a, b : a < b)
    IN  sorted[MedianIndex(Len(times))]

\* duckdb_tools.py:139-172; outs[i] is the outcome of the i-th execution.
Benchmark(sql, runs, warmup, outs) ==
    LET w == RangeLen(warmup)
        r == RangeLen(runs)
        bad == {i \in 1..(w + r) : outs[i] = Failed}
        times == [i \in 1..r |-> outs[w + i]]
    IN  IF bad # {}
        THEN [ok |-> FALSE, error |-> ExplainAnalyze(sql, Failed).error]
        ELSE IF r = 0 THEN Raised("IndexError")
        ELSE [ok |-> TRUE, runs |-> runs, warmup |-> warmup,
              elapsed_ms |-> times, median_ms |-> Median(times)]

\* ------------------------------------------------------------------ agent.py: dispatch

\* A decoded arguments mapping: its keys, and the values of the keys it has.
NoArgs == [keys |-> {}, name |-> << >>, sql |-> << >>, runs |-> 0, warmup |-> 0,
           timeout_s |-> 0]

\* Defaults of the keyword parameters (duckdb_tools.py:139).
DefaultRuns == 3
DefaultWarmup == 1
DefaultTimeoutS == 60

RunsOf(args) == IF "runs" \in args.keys THEN args.runs ELSE DefaultRuns
WarmupOf(args) == IF "warmup" \in args.keys THEN args.warmup ELSE DefaultWarmup
TimeoutOf(args) == IF "timeout_s" \in args.keys THEN args.timeout_s ELSE DefaultTimeoutS

RegisteredTools == {"list_tables", "table_exists", "describe_relation", "explain", "benchmark"}

\* The parameters of each method called with **args, and the ones without default.
Params(name) ==
    CASE name = "table_exists" -> {"name"}
      [] name = "describe_relation" -> {"name", "sample_cols"}
      [] name = "explain" -> {"sql"}
      [] name = "benchmark" -> {"sql", "runs", "warmup", "timeout_s"}
      [] OTHER -> {}
Required(name) ==
    CASE name \in {"table_exists", "describe_relation"} -> {"name"}
      [] name \in {"explain", "benchmark"} -> {"sql"}
      [] OTHER -> {}

\* f(**args) binds: no parameter is missing and no keyword is unexpected.
Binds(name, args) == Required(name) \subseteq args.keys /\ args.keys \subseteq Params(name)

\* The executions of the engine a dispatch of this call makes at most.
ExecutionsOf(name, args) ==
    IF ~Binds(name, args) THEN 0
    ELSE CASE name = "explain" -> 1
           [] name = "benchmark" -> Executions(RunsOf(args), WarmupOf(args))
           [] OTHER -> 0

UnknownToolMut(name, args) == Raised("KeyError")

\* agent.py:52
UnknownTool(name, args) ==
    [ok |-> FALSE, error |-> <<"Unknown tool: ", name>>, name |-> name, args |-> args]

\* agent.py:41-52
Dispatch(name, args, outs) ==
    CASE name = "list_tables" -> ListTables
      [] name \in RegisteredTools \ {"list_tables"} /\ ~Binds(name, args) -> Raised("TypeError")
      [] name = "table_exists" -> TableExists(args.name)
      [] name = "describe_relation" -> DescribeRelation(args.name)
      [] name = "explain" -> Explain(args.sql, outs)
      [] name = "benchmark" -> Benchmark(args.sql, RunsOf(args), WarmupOf(args), outs)
      [] OTHER -> UnknownTool(name, args)

\* json.loads(args_str) of agent.py:88-91: the mapping, or {} when it raises.
DecodeArgs(arguments) == IF arguments.wellformed THEN arguments.obj ELSE NoArgs

\* json.dumps(result): a string that holds the result.
JsonDumps(result) == <<"json", result>>

\* agent.py:86, call.get("call_id") or call.get("id")
CallIdOf(call) == IF call.call_id # NoneVal THEN call.call_id ELSE call.id

\* ------------------------------------------------------------------ the gateway's responses

\* The serialized arguments of a function_call item: a JSON text that decodes to
\* obj, or a text json.loads rejects.
Json(obj) == [wellformed |-> TRUE, obj |-> obj]
Garbage == [wellformed |-> FALSE, obj |-> NoArgs]

NameArgs(name) == [NoArgs EXCEPT !.keys = {"name"}, !.name = name]
SqlArgs(sql) == [NoArgs EXCEPT !.keys = {"sql"}, !.sql = sql]
RunsArgs(sql, runs) == [NoArgs EXCEPT !.keys = {"sql", "runs"}, !.sql = sql, !.runs = runs]
FullArgs(sql, runs, warmup) ==
    [NoArgs EXCEPT !.keys = {"sql", "runs", "warmup"}, !.sql = sql,
                   !.runs = runs, !.warmup = warmup]
TimedArgs(sql, runs, warmup, timeout_s) ==
    [NoArgs EXCEPT !.keys = {"sql", "runs", "warmup", "timeout_s"}, !.sql = sql,
                   !.runs = runs, !.warmup = warmup, !.timeout_s = timeout_s]

\* A function_call item before the gateway numbers it; hasCallId is whether it has
\* a call_id besides its id.
CallShape(name, arguments, hasCallId) ==
    [type |-> "function_call", name |-> name, arguments |-> arguments, hasCallId |-> hasCallId]

\* A message item whose content is a list of parts, or a str.
Part(type, text) == [type |-> type, text |-> text]
Msg(parts) == [type |-> "message", content |-> [kind |-> "list", parts |-> parts]]
MsgStr(text) == [type |-> "message", content |-> [kind |-> "str", text |-> text]]

FencedSelect == <<"<fence>sql", "select", "<fence>">>

\* Responses of the dialogue loop's checks.  Every tool name, registered or not,
\* comes with arguments json.loads rejects and with the empty mapping; each
\* registered tool comes with the arguments of its schema, table_exists also
\* with a keyword it does not have, and list_tables also without a call_id.
LoopNames == RegisteredTools \cup {"drop_table"}
LoopCallShapes ==
    {CallShape(n, a, TRUE) : n \in LoopNames, a \in {Garbage, Json(NoArgs)}}
      \cup {CallShape("table_exists", Json(NameArgs(<<"orders">>)), TRUE),
            CallShape("table_exists", Json(SqlArgs(<<"select">>)), TRUE),
            CallShape("describe_relation", Json(NameArgs(<<"orders">>)), TRUE),
            CallShape("describe_relation", Json(NameArgs(<<"main", "ghost">>)), TRUE),
            CallShape("explain", Json(SqlArgs(<<"select">>)), TRUE),
            CallShape("benchmark", Json(SqlArgs(<<"select">>)), TRUE),
            CallShape("benchmark", Json(RunsArgs(<<"select">>, 0)), TRUE),
            CallShape("benchmark", Json(FullArgs(<<"select">>, 1, 0)), TRUE),
            CallShape("list_tables", Json(NoArgs), FALSE)}
LoopMsgShapes ==
    {Msg(<<Part("output_text", <<" ">>)>>),
     Msg(<<Part("output_text", Sentinel)>>),
     MsgStr(<<"x">>),
     Msg(<<Part("text", <<"x">>), Part("refusal", <<"no">>), Part("output_text", <<" ">>),
           Part("output_text", FencedSelect)>>)}
\* The engine's outcomes of one execution in those checks.
LoopOutcomes == {Failed, 30}

\* Responses of the optimization run's checks.
RunTexts ==
    {<<"x", "SELECT">>,
     <<"x">>,
     <<"select", "<fence>SQL", "x", "<fence>", "<fence>sql", "select", "<fence>">>,
     <<"<fence>sql", " ", "<fence>", "select">>,
     <<" ">>,
     Sentinel}
RunCallShapes ==
    {CallShape("list_tables", Json(NoArgs), TRUE),
     CallShape("table_exists", Garbage, TRUE),
     CallShape("drop_table", Json(NoArgs), TRUE)}
RunMsgShapes == {Msg(<<Part("output_text", t)>>) : t \in RunTexts}
PlainMsg == Msg(<<Part("output_text", <<"x">>)>>)
\* Measured times: multiples of 30 ms.
MsValues == {30 * k : k \in 0..MaxMs}
RunOutcomes == {Failed} \cup MsValues

IsCall(item) == item.type = "function_call"

\* The number of function_call items among the first n of shapes.
CallsBefore(shapes, n) == Cardinality({i \in 1..n : IsCall(shapes[i])})

\* The item the gateway returns for a shape: a function_call gets the next call
\* number, in its call_id ("call_<n>") and its id ("fc_<n>").
Numbered(shape, n) ==
    IF IsCall(shape)
    THEN [type |-> "function_call", name |-> shape.name, arguments |-> shape.arguments,
          call_id |-> IF shape.hasCallId THEN <<"call", n>> ELSE NoneVal,
          id |-> <<"fc", n>>]
    ELSE shape

\* The output lists of at most MaxItems items the gateway can return over the
\* shapes, when the next call number is first and MaxCalls bounds the numbers.
Responses(shapes, first) ==
    LET lists == UNION {[1..k -> shapes] : k \in 0..MaxItems}
        fits == {s \in lists : first - 1 + CallsBefore(s, Len(s)) <= MaxCalls}
    IN  {[i \in 1..Len(s) |-> Numbered(s[i], first + CallsBefore(s, i - 1))] : s \in fits}

\* The responses of the optimization run's checks: a terminal response is empty
\* or one message; a response with tool calls holds no text but the plain one.
RunResponses(first) ==
    {r \in Responses(RunCallShapes \cup RunMsgShapes, first) :
        IF \E i \in 1..Len(r) : IsCall(r[i])
        THEN \A i \in 1..Len(r) : IsCall(r[i]) \/ r[i] = PlainMsg
        ELSE Len(r) <= 1}
LoopResponses(first) == Responses(LoopCallShapes \cup LoopMsgShapes, first)

\* ------------------------------------------------------------------ agent.py: run_tool_loop

\* agent.py:39
SystemMessage == [role |-> "system", content |-> <<"SYSTEM_PROMPT">>]

\* agent.py:70-72
ToolCalls(items) == SelectSeq(items, IsCall)

ChunksOfMut(item) ==
    IF item.type # "message" THEN << >>
    ELSE IF item.content.kind = "str" THEN <<item.content.text>>
    ELSE [i \in 1..Len(item.content.parts) |-> item.content.parts[i].text]

\* agent.py:73-80, the chunks of one item.
ChunksOf(item) ==
    IF item.type # "message" THEN << >>
    ELSE IF item.content.kind = "str" THEN <<item.content.text>>
    ELSE LET texts == SelectSeq(item.content.parts,
                                LAMBDA c : c.type \in {"output_text", "text"})
         IN  [i \in 1..Len(texts) |-> texts[i].text]

\* agent.py:67-80, final_text_chunks of the output items.
RECURSIVE TextChunks(_)
TextChunks(items) ==
    IF items = << >> THEN << >> ELSE ChunksOf(Head(items)) \o TextChunks(Tail(items))

\* agent.py:93 and 95
CallEvent(name, args) == [kind |-> "tool_call", name |-> name, args |-> args]
ResultEvent(name, result) == [kind |-> "tool_result", name |-> name, result |-> result]

AssistantRecordMut(text) == [role |-> "system", content |-> text]

\* agent.py:116-117
AssistantRecord(text) == [role |-> "assistant", content |-> text]

\* agent.py:138-151 and 154-162, the two user records of optimize_once.
TaskMessage(sql, runs, warmup) ==
    [role |-> "user", content |-> <<"Task: optimize the following SQL", runs, warmup, sql>>]
InstructionMessage ==
    [role |-> "user", content |-> <<"Before rewriting, verify referenced relations">>]

\* The outcomes of n executions of the engine, each from outcomes.
Outs(n, outcomes) == [1..n -> outcomes]

InBudgetMut(n, budget) == n <= budget

\* agent.py:61, for _ in range(max_tool_steps): an iteration follows n earlier ones.
InBudget(n, budget) == n < budget

ToolOutputMut(call, result) ==
    [type |-> "function_call_output", call_id |-> call.id, output |-> JsonDumps(result)]

\* agent.py:106-112
ToolOutput(call, result) ==
    [type |-> "function_call_output", call_id |-> CallIdOf(call), output |-> JsonDumps(result)]

\* agent.py:61-65 and 82, 115-118: one iteration up to the dispatch of its tool
\* calls, or a terminal turn.  items is the output of responses_create.
LlmRespond(items) ==
    /\ pc = "llm"
    /\ InBudget(step, cfg.max_tool_steps)
    /\ LET calls == ToolCalls(items)
           text == FinalTextOf(TextChunks(items))
       IN  /\ llm_calls' = llm_calls + 1
           /\ next_id' = next_id + Len(calls)
           /\ IF calls # << >>
              THEN /\ messages' = messages \o items
                   /\ pending' = calls
                   /\ pc' = "dispatch"
                   /\ UNCHANGED final_text
              ELSE /\ messages' = IF Truthy(text)
                                  THEN (messages \o items) \o <<AssistantRecord(text)>>
                                  ELSE messages \o items
                   /\ final_text' = text
                   /\ pc' = "returned"
                   /\ UNCHANGED pending
           /\ last' = [op |-> "llm"]
    /\ UNCHANGED <<cfg, events, step, it, best_sql, base_ms, best_report, cand_sql,
                   orig_ms, bench_calls>>

\* What responses_create gives back when the gateway is at fault: it raises
\* (llm_openai.py:18 is not guarded), or it returns a mapping that has no
\* output key, or one whose output is null.
Unreachable == Raised("APIConnectionError")
NoOutputResponse == [id |-> "resp"]
NullOutputResponse == [id |-> "resp", output |-> NoneVal]
FaultyResponses == {Unreachable, NoOutputResponse, NullOutputResponse}

\* agent.py:63, resp.get("output", [])
OutputItems(resp) == IF "output" \in DOMAIN resp THEN resp.output ELSE << >>

\* agent.py:61-65 and 115-118 for a response of FaultyResponses: the exception of
\* responses_create, or of self.messages += None, leaves run_tool_loop; a mapping
\* without output is a turn with no item.
LlmFault(resp) ==
    /\ pc = "llm"
    /\ InBudget(step, cfg.max_tool_steps)
    /\ llm_calls' = llm_calls + 1
    /\ last' = [op |-> "llm_fault", resp |-> resp]
    /\ IF IsRaised(resp) \/ OutputItems(resp) = NoneVal
       THEN pc' = "raised" /\ UNCHANGED <<messages, final_text>>
       ELSE LET items == OutputItems(resp)
                text == FinalTextOf(TextChunks(items))
            IN  /\ messages' = IF Truthy(text)
                               THEN (messages \o items) \o <<AssistantRecord(text)>>
                               ELSE messages \o items
                /\ final_text' = text
                /\ pc' = "returned"
    /\ UNCHANGED <<cfg, events, step, pending, it, best_sql, base_ms, best_report,
                   cand_sql, orig_ms, bench_calls, next_id>>

\* agent.py:83-112 for one call whose dispatch returns.
DispatchCall(outs) ==
    /\ pc = "dispatch"
    /\ pending # << >>
    /\ LET call == Head(pending)
           args == DecodeArgs(call.arguments)
           result == Dispatch(call.name, args, outs)
       IN  /\ ~IsRaised(result)
           /\ events' = events \o <<CallEvent(call.name, args), ResultEvent(call.name, result)>>
           /\ messages' = Append(messages, ToolOutput(call, result))
           /\ last' = [op |-> "dispatch", call |-> call, result |-> result]
    /\ pending' = Tail(pending)
    /\ IF Tail(pending) = << >>
       THEN step' = step + 1 /\ pc' = "llm"
       ELSE UNCHANGED <<step, pc>>
    /\ UNCHANGED <<cfg, final_text, it, best_sql, base_ms, best_report, cand_sql,
                   orig_ms, llm_calls, bench_calls, next_id>>

\* agent.py:83-94 for one call whose dispatch raises: the exception leaves
\* run_tool_loop, optimize_once and optimize.
DispatchRaises(outs) ==
    /\ pc = "dispatch"
    /\ pending # << >>
    /\ LET call == Head(pending)
           args == DecodeArgs(call.arguments)
           result == Dispatch(call.name, args, outs)
       IN  /\ IsRaised(result)
           /\ events' = Append(events, CallEvent(call.name, args))
           /\ last' = [op |-> "dispatch", call |-> call, result |-> result]
    /\ pc' = "raised"
    /\ UNCHANGED <<cfg, messages, step, pending, final_text, it, best_sql, base_ms,
                   best_report, cand_sql, orig_ms, llm_calls, bench_calls, next_id>>

\* agent.py:61 and 120: the for loop has run max_tool_steps iterations.
LoopExhausted ==
    /\ pc = "llm"
    /\ ~InBudget(step, cfg.max_tool_steps)
    /\ final_text' = Sentinel
    /\ pc' = "returned"
    /\ last' = [op |-> "exhausted"]
    /\ UNCHANGED <<cfg, messages, events, step, pending, it, best_sql, base_ms,
                   best_report, cand_sql, orig_ms, llm_calls, bench_calls, next_id>>

\* ------------------------------------------------------------------ cli.py: optimize

NoReport == [none |-> TRUE]

ImprovePctMut(base, cand) == [num |-> (cand - base) * 100, den |-> base]

\* cli.py:103, (base_ms - cand_ms) / base_ms * 100.0 as the fraction num / den.
ImprovePct(base, cand) == [num |-> (base - cand) * 100, den |-> base]

\* The whole percentages p of 0..200 that the floating-point (p / 100) * 100.0
\* does not give back: the result is below p for the first ones and above p
\* for the second ones.
RoundsBelow == {29, 57, 58, 113, 114, 115, 116}
RoundsAbove == {7, 14, 28, 55, 56, 109, 110, 111, 112}

\* cli.py:119, improve_pct >= min_improve_pct (den > 0), where improve_pct is the
\* floating-point (base_ms - cand_ms) / base_ms * 100.0 of cli.py:103.  For whole
\* milliseconds and a whole threshold the rounding decides only when the exact
\* quotient equals the threshold (at most 200 in size): then the division gives
\* the double nearest to threshold / 100 and the product may miss the threshold.
ReachedThreshold(pct, threshold) ==
    LET exact == pct.num - threshold * pct.den
    IN  IF exact # 0 THEN exact > 0
        ELSE IF threshold >= 0 THEN threshold \notin RoundsBelow
        ELSE (0 - threshold) \notin RoundsAbove

IsImprovementMut(cand_ms, reference) == cand_ms <= reference
IsImprovementInverted(cand_ms, reference) == cand_ms > reference

\* cli.py:113
IsImprovement(cand_ms, reference) == cand_ms < reference

OnCandidateFailureMut == "break"

\* cli.py:100, what the loop does after a failed candidate benchmark.
OnCandidateFailure == "continue"

\* cli.py:63-73: the baseline benchmark.
Baseline(outs) ==
    /\ pc = "baseline"
    /\ LET bench == Benchmark(best_sql, cfg.runs, cfg.warmup, outs)
       IN  /\ last' = [op |-> "baseline", bench |-> bench]
           /\ IF IsRaised(bench)
              THEN pc' = "raised" /\ UNCHANGED <<base_ms, orig_ms>>
              ELSE IF ~bench.ok
              THEN pc' = "failed" /\ UNCHANGED <<base_ms, orig_ms>>
              ELSE /\ pc' = "round"
                   /\ base_ms' = bench.median_ms
                   /\ orig_ms' = bench.median_ms
    /\ bench_calls' = bench_calls + 1
    /\ UNCHANGED <<cfg, messages, events, step, pending, final_text, it, best_sql,
                   best_report, cand_sql, llm_calls, next_id>>

InRoundsMut(i, max_iters) == i <= max_iters + 1

\* cli.py:75, for it in range(1, max_iters + 1): the round i is run.
InRounds(i, max_iters) == i <= max_iters

NewEventsMut == events

\* agent.py:60, events = []: the event log of an invocation of run_tool_loop.
NewEvents == << >>

\* cli.py:75-84 and agent.py:137-164: a round begins; optimize_once appends its two
\* user records and calls run_tool_loop.
StartRound ==
    /\ pc = "round"
    /\ InRounds(it, cfg.max_iters)
    /\ messages' = messages \o <<TaskMessage(best_sql, cfg.runs, cfg.warmup), InstructionMessage>>
    /\ events' = NewEvents
    /\ step' = 0
    /\ pc' = "llm"
    /\ last' = [op |-> "start_round"]
    /\ UNCHANGED <<cfg, pending, final_text, it, best_sql, base_ms, best_report,
                   cand_sql, orig_ms, llm_calls, bench_calls, next_id>>

\* cli.py:75 and 123-125: the rounds are used up.
RoundsExhausted ==
    /\ pc = "round"
    /\ ~InRounds(it, cfg.max_iters)
    /\ pc' = "done"
    /\ last' = [op |-> "rounds_exhausted"]
    /\ UNCHANGED <<cfg, messages, events, step, pending, final_text, it, best_sql,
                   base_ms, best_report, cand_sql, orig_ms, llm_calls, bench_calls, next_id>>

\* cli.py:86-92: no candidate in the final text, the run stops.
NoCandidate ==
    /\ pc = "returned"
    /\ LET cand == ExtractSqlFromModel(OrEmpty(final_text))
       IN  /\ ~Truthy(cand)
           /\ cand_sql' = cand
    /\ pc' = "done"
    /\ last' = [op |-> "no_candidate"]
    /\ UNCHANGED <<cfg, messages, events, step, pending, final_text, it, best_sql,
                   base_ms, best_report, orig_ms, llm_calls, bench_calls, next_id>>

\* cli.py:86-121: the candidate is benchmarked and compared.
Candidate(outs) ==
    /\ pc = "returned"
    /\ LET cand == ExtractSqlFromModel(OrEmpty(final_text))
           bench == Benchmark(cand, cfg.runs, cfg.warmup, outs)
       IN  /\ Truthy(cand)
           /\ cand_sql' = cand
           /\ bench_calls' = bench_calls + 1
           /\ IF IsRaised(bench)
              THEN /\ pc' = "raised"
                   /\ last' = [op |-> "candidate", bench |-> bench]
                   /\ UNCHANGED <<it, best_sql, base_ms, best_report>>
              ELSE IF ~bench.ok
              THEN \* cli.py:97-100
                   /\ IF OnCandidateFailure = "continue"
                      THEN pc' = "round" /\ it' = it + 1
                      ELSE pc' = "done" /\ UNCHANGED it
                   /\ last' = [op |-> "candidate", bench |-> bench]
                   /\ UNCHANGED <<best_sql, base_ms, best_report>>
              ELSE IF base_ms = 0
              THEN \* cli.py:103, ZeroDivisionError
                   /\ pc' = "raised"
                   /\ last' = [op |-> "candidate", bench |-> bench,
                               raised |-> "ZeroDivisionError"]
                   /\ UNCHANGED <<it, best_sql, base_ms, best_report>>
              ELSE LET cand_ms == bench.median_ms
                       pct == ImprovePct(base_ms, cand_ms)
                   IN  /\ last' = [op |-> "candidate", bench |-> bench, improve_pct |-> pct,
                                   reference |-> base_ms]
                       /\ IF IsImprovement(cand_ms, base_ms)
                          THEN /\ best_sql' = cand
                               /\ base_ms' = cand_ms
                               /\ best_report' = [benchmark |-> bench, model_text |-> OrEmpty(final_text),
                                                  improve_pct |-> pct]
                          ELSE UNCHANGED <<best_sql, base_ms, best_report>>
                       /\ IF ReachedThreshold(pct, cfg.min_improve_pct)
                          THEN pc' = "done" /\ UNCHANGED it
                          ELSE pc' = "round" /\ it' = it + 1
    /\ UNCHANGED <<cfg, messages, events, step, pending, final_text, orig_ms,
                   llm_calls, next_id>>

\* ------------------------------------------------------------------ specifications

\* cli.py:31-41, the settings of the modelled runs.
InputSql == <<"select", "x">>
Thresholds == {0, 25, 50}
RunsChoices == {0, 1}
WarmupChoices == {1}

\* cli.py:56-64: the agent is constructed and the state of optimize is set.
Init ==
    /\ cfg \in [max_tool_steps : {MaxSteps}, max_iters : 0..MaxIters,
                min_improve_pct : Thresholds, runs : RunsChoices, warmup : WarmupChoices]
    /\ messages = <<SystemMessage>>
    /\ events = << >>
    /\ pc = "baseline"
    /\ step = 0
    /\ pending = << >>
    /\ final_text = NoneVal
    /\ it = 1
    /\ best_sql = InputSql
    /\ base_ms = 0
    /\ best_report = NoReport
    /\ cand_sql = NoneVal
    /\ last = [op |-> "init"]
    /\ orig_ms = 0
    /\ llm_calls = 0
    /\ bench_calls = 0
    /\ next_id = 1

\* The engine's outcomes a pending dispatch can meet.
DispatchOuts(outcomes) ==
    IF pc = "dispatch" /\ pending # << >>
    THEN Outs(ExecutionsOf(Head(pending).name, DecodeArgs(Head(pending).arguments)), outcomes)
    ELSE {}

BenchOuts == Outs(Executions(cfg.runs, cfg.warmup), RunOutcomes)

Next ==
    \/ pc = "baseline" /\ \E outs \in BenchOuts : Baseline(outs)
    \/ StartRound
    \/ RoundsExhausted
    \/ pc = "llm" /\ \E items \in RunResponses(next_id) : LlmRespond(items)
    \/ \E resp \in FaultyResponses : LlmFault(resp)
    \/ \E outs \in DispatchOuts(LoopOutcomes) : DispatchCall(outs)
    \/ \E outs \in DispatchOuts(LoopOutcomes) : DispatchRaises(outs)
    \/ LoopExhausted
    \/ NoCandidate
    \/ pc = "returned" /\ \E outs \in BenchOuts : Candidate(outs)

\* A whole optimization run.
\* The program is sequential: while a step is possible, it is taken.
Spec == Init /\ [][Next]_vars /\ WF_vars(Next)

\* One invocation of run_tool_loop by optimize_once on a new agent, for every
\* max_tool_steps up to MaxSteps.
InitLoop ==
    /\ cfg \in [max_tool_steps : 0..MaxSteps, max_iters : {1},
                min_improve_pct : {10}, runs : {DefaultRuns}, warmup : {DefaultWarmup}]
    /\ messages = <<SystemMessage>>
    /\ events = << >>
    /\ pc = "round"
    /\ step = 0
    /\ pending = << >>
    /\ final_text = NoneVal
    /\ it = 1
    /\ best_sql = InputSql
    /\ base_ms = 120
    /\ best_report = NoReport
    /\ cand_sql = NoneVal
    /\ last = [op |-> "init"]
    /\ orig_ms = 120
    /\ llm_calls = 0
    /\ bench_calls = 1
    /\ next_id = 1

NextLoop ==
    \/ StartRound
    \/ pc = "llm" /\ \E items \in LoopResponses(next_id) : LlmRespond(items)
    \/ \E resp \in FaultyResponses : LlmFault(resp)
    \/ \E outs \in DispatchOuts(LoopOutcomes) : DispatchCall(outs)
    \/ \E outs \in DispatchOuts(LoopOutcomes) : DispatchRaises(outs)
    \/ LoopExhausted

SpecLoop == InitLoop /\ [][NextLoop]_vars /\ WF_vars(NextLoop)

\* The relation names the model can give to a tool.
NameParts == {"main", "staging", "public", "orders", "customers", "ghost"}
Names == UNION {[1..k -> NameParts] : k \in 0..MaxNameParts}

\* The tool calls of the tool provider's checks.
ToolCallShapes ==
    {CallShape("table_exists", Json(NameArgs(n)), TRUE) : n \in Names}
      \cup {CallShape("describe_relation", Json(NameArgs(n)), TRUE) : n \in Names}
      \cup {CallShape("table_exists", Garbage, TRUE),
            CallShape("benchmark", Json(SqlArgs(<<"select">>)), TRUE),
            CallShape("benchmark", Json(TimedArgs(<<"select">>, 1, 0, 1)), TRUE)}

\* The engine's outcomes of one execution in those checks: it fails, or it takes
\* 30 ms, 2 s or 61 s.
ToolOutcomes == {Failed, 30, 2000, 61000}

\* The dispatch of one tool call: the state of run_tool_loop after the first
\* gateway call of a new agent returned that call alone (agent.py:61-82).
InitTools ==
    /\ cfg \in [max_tool_steps : {MaxSteps}, max_iters : {1},
                min_improve_pct : {10}, runs : {DefaultRuns}, warmup : {DefaultWarmup}]
    /\ \E shape \in ToolCallShapes :
          /\ messages = <<SystemMessage, TaskMessage(InputSql, DefaultRuns, DefaultWarmup),
                          InstructionMessage, Numbered(shape, 1)>>
          /\ pending = <<Numbered(shape, 1)>>
    /\ events = << >>
    /\ pc = "dispatch"
    /\ step = 0
    /\ final_text = NoneVal
    /\ it = 1
    /\ best_sql = InputSql
    /\ base_ms = 120
    /\ best_report = NoReport
    /\ cand_sql = NoneVal
    /\ last = [op |-> "llm"]
    /\ orig_ms = 120
    /\ llm_calls = 1
    /\ bench_calls = 1
    /\ next_id = 2

NextTools ==
    \/ \E outs \in DispatchOuts(ToolOutcomes) : DispatchCall(outs)
    \/ \E outs \in DispatchOuts(ToolOutcomes) : DispatchRaises(outs)

SpecTools == InitTools /\ [][NextTools]_vars /\ WF_vars(NextTools)

\* ------------------------------------------------------------------ the transcript, read back

IsRequest(m) == "type" \in DOMAIN m /\ m.type = "function_call"
IsToolResult(m) == "type" \in DOMAIN m /\ m.type = "function_call_output"
IsAssistant(m) == "role" \in DOMAIN m /\ m.role = "assistant"

\* The call identifier of a request: its call_id, or its id when it has none.
Identifier(m) == IF m.call_id # NoneVal THEN m.call_id ELSE m.id

Requests == {i \in 1..Len(messages) : IsRequest(messages[i])}
ToolResults == {i \in 1..Len(messages) : IsToolResult(messages[i])}

\* The tool results that carry the identifier of the request at i.
ResultsFor(i) == {j \in ToolResults : messages[j].call_id = Identifier(messages[i])}

\* The result of the last dispatch is a record with a boolean ok.
LastDispatchReturned ==
    /\ ~IsRaised(last.result)
    /\ "ok" \in DOMAIN last.result
    /\ last.result.ok \in BOOLEAN

\* The last dispatch recorded its event pair and appended its tool result.
LastDispatchRecorded ==
    /\ pc \in {"llm", "dispatch"}
    /\ Len(events) >= 2
    /\ events[Len(events) - 1].kind = "tool_call"
    /\ events[Len(events) - 1].name = last.call.name
    /\ events[Len(events)] = [kind |-> "tool_result", name |-> last.call.name,
                              result |-> last.result]
    /\ messages[Len(messages)] =
           [type |-> "function_call_output", call_id |-> Identifier(last.call),
            output |-> JsonDumps(last.result)]

\* ------------------------------------------------------------------ claims, dialogue loop

\* C1: whenever the gateway is about to be called again, and when run_tool_loop
\* returns, every function_call item of the transcript is followed by exactly one
\* function_call_output record that carries its call identifier.
C1_EveryRequestAnsweredOnce ==
    pc \in {"llm", "returned"} =>
        \A i \in Requests : /\ Cardinality(ResultsFor(i)) = 1
                            /\ \A j \in ResultsFor(i) : j > i

\* Two requests of one turn were answered and the gateway is about to be called.
C1_Witness ==
    /\ pc = "llm"
    /\ InBudget(step, cfg.max_tool_steps)
    /\ Cardinality(Requests) = 2
    /\ llm_calls = 1
    /\ \E i \in Requests : messages[i].call_id = NoneVal

\* C2: run_tool_loop makes at most max_tool_steps gateway calls, for every
\* max_tool_steps >= 0 and every behaviour of the model, and then it ends.
C2_TerminatesWithinBudget ==
    /\ [](llm_calls <= cfg.max_tool_steps /\ step <= cfg.max_tool_steps)
    /\ <>(pc \in {"returned", "raised"})

\* The model asked for tools on every turn and the loop returned after
\* max_tool_steps gateway calls.
C2_Witness ==
    /\ pc = "returned"
    /\ last.op = "exhausted"
    /\ cfg.max_tool_steps = MaxSteps
    /\ llm_calls = MaxSteps

\* C3, as stated: the text returned on exhaustion is non-null and non-empty, and
\* no terminal turn returns the same text.
C3_SentinelDistinctFromModelText ==
    /\ (pc = "returned" /\ last.op = "exhausted") => Truthy(final_text)
    /\ (pc = "returned" /\ last.op = "llm") => final_text # Sentinel

\* C3, amended: on exhaustion run_tool_loop returns the sentinel, which is neither
\* null nor empty, with the event pairs of every tool result of the invocation;
\* a terminal turn returns the sentinel text only when the model itself wrote it.
C3_SentinelOnExhaustion ==
    /\ (pc = "returned" /\ last.op = "exhausted") =>
          /\ final_text = <<"Stopped: reached max_tool_steps.">>
          /\ Truthy(final_text)
          /\ Len(events) = 2 * Cardinality(ToolResults)
          /\ llm_calls = cfg.max_tool_steps
    /\ (pc = "returned" /\ last.op = "llm" /\ final_text = Sentinel) =>
          /\ IsAssistant(messages[Len(messages)])
          /\ messages[Len(messages)].content = Sentinel
          /\ messages[Len(messages) - 1].type = "message"

\* The budget ran out after a step with a tool call.
C3_Witness ==
    /\ pc = "returned"
    /\ last.op = "exhausted"
    /\ final_text = Sentinel
    /\ Len(events) >= 2

\* C4: the dispatch of a name that is not registered does not raise; its result
\* has ok = false and an error that holds the name, it is appended as the tool
\* result of the call, and the loop goes on.
C4_UnknownToolIsData ==
    (last.op = "dispatch" /\ last.call.name \notin RegisteredTools) =>
        /\ LastDispatchReturned
        /\ last.result.ok = FALSE
        /\ \E k \in 1..Len(last.result.error) : last.result.error[k] = last.call.name
        /\ LastDispatchRecorded

\* An unregistered tool was dispatched and the next gateway call is due.
C4_Witness ==
    /\ last.op = "dispatch"
    /\ last.call.name = "drop_table"
    /\ pc = "llm"
    /\ InBudget(step, cfg.max_tool_steps)

\* C5: every dispatch of a registered tool with arguments of its declared types
\* returns a record with a boolean ok, and nothing is raised out of run_tool_loop.
C5_ToolsAlwaysReturnRecord ==
    (/\ last.op = "dispatch"
     /\ last.call.name \in RegisteredTools
     /\ last.call.arguments.wellformed
     /\ Binds(last.call.name, last.call.arguments.obj)) =>
        /\ LastDispatchReturned
        /\ pc # "raised"

\* C6: a request for a registered tool whose arguments do not decode, or lack a
\* required field, does not abort the turn: the tool is dispatched, the event pair
\* is recorded and the tool result is appended.
C6_MalformedArgumentsDoNotAbort ==
    (/\ last.op = "dispatch"
     /\ last.call.name \in RegisteredTools
     /\ \/ ~last.call.arguments.wellformed
        \/ ~(Required(last.call.name) \subseteq last.call.arguments.obj.keys)) =>
        /\ pc # "raised"
        /\ LastDispatchReturned
        /\ LastDispatchRecorded

\* ------------------------------------------------------------------ claims, optimization run

\* The round state of optimize.
RoundState == <<best_sql, base_ms, best_report>>

\* The step is a candidate benchmark that returned a record.
CandidateMeasured == pc = "returned" /\ last'.op = "candidate" /\ "ok" \in DOMAIN last'.bench

\* C7: the reference of the current best SQL is never greater than the
\* baseline's measured median, and it never increases after the baseline.
C7_ReferenceNeverWorse ==
    /\ [](base_ms <= orig_ms)
    /\ [](best_report # NoReport =>
             best_report.benchmark.median_ms = base_ms /\ base_ms < orig_ms)
    /\ [][pc # "baseline" => base_ms' <= base_ms]_vars

\* A candidate slower than the reference came after one that had improved on it.
C7_Witness ==
    /\ last.op = "candidate"
    /\ "reference" \in DOMAIN last
    /\ last.bench.median_ms > last.reference
    /\ last.reference < orig_ms
    /\ base_ms = last.reference

\* C8: the round state changes in a step if and only if the step is a candidate
\* benchmark that succeeded with a median strictly below the reference, and then
\* the candidate, its median and its report are adopted; a run that ends with no
\* improvement ends with the input SQL.
C8_RoundStateChangesIffStrictlyBetter ==
    /\ [][pc # "baseline" =>
             (RoundState' # RoundState <=>
                 (CandidateMeasured /\ last'.bench.ok /\ last'.bench.median_ms < base_ms))]_vars
    /\ [][RoundState' # RoundState /\ pc # "baseline" =>
             /\ best_sql' = cand_sql'
             /\ base_ms' = last'.bench.median_ms
             /\ best_report'.benchmark = last'.bench
             /\ best_report'.model_text = final_text]_vars
    /\ [](pc = "done" /\ best_report = NoReport => best_sql = InputSql /\ base_ms = orig_ms)

\* A candidate as fast as the reference left the state of an earlier improvement.
C8_Witness ==
    /\ last.op = "candidate"
    /\ "reference" \in DOMAIN last
    /\ last.bench.median_ms = last.reference
    /\ best_report # NoReport
    /\ base_ms = last.reference
    /\ best_sql # cand_sql

\* C9: a candidate benchmark with ok = false leaves the round state and goes to
\* the next round, whatever the threshold; the run fails only on a baseline
\* benchmark with ok = false, and then before any gateway call.
C9_CandidateFailureKeepsBest ==
    /\ [][CandidateMeasured /\ ~last'.bench.ok =>
             /\ RoundState' = RoundState
             /\ pc' = "round"
             /\ it' = it + 1]_vars
    /\ [](pc = "failed" =>
             /\ last.op = "baseline"
             /\ ~last.bench.ok
             /\ llm_calls = 0
             /\ messages = <<SystemMessage>>)
    /\ []((last.op = "baseline" /\ "ok" \in DOMAIN last.bench /\ ~last.bench.ok) => pc = "failed")

\* A candidate benchmark failed with a round left, under the threshold 0.
C9_Witness ==
    /\ last.op = "candidate"
    /\ "ok" \in DOMAIN last.bench
    /\ ~last.bench.ok
    /\ pc = "round"
    /\ it <= cfg.max_iters
    /\ cfg.min_improve_pct = 0
    /\ best_sql = InputSql

\* The candidate the claim describes for the text t: the first fenced block,
\* else the whole text if it holds the keyword select, else none.
ExtractionAsClaimed(t, c) ==
    IF \E i, j \in 1..Len(t) : i < j /\ IsOpenFence(t[i]) /\ IsBackticks(t[j])
    THEN \E i, j \in 1..Len(t) :
            /\ i < j
            /\ IsOpenFence(t[i])
            /\ \A k \in 1..(i - 1) : ~IsOpenFence(t[k])
            /\ IsBackticks(t[j])
            /\ \A k \in (i + 1)..(j - 1) : ~IsBackticks(t[k])
            /\ c = Strip(SubSeq(t, i + 1, j - 1))
    ELSE IF \E k \in 1..Len(t) : t[k] \in {"select", "SELECT"}
    THEN c = Strip(t)
    ELSE c = NoneVal

\* C10: the candidate is the first fenced SQL block of the final text, else the
\* whole text if it holds the keyword, else none; with no candidate the run stops
\* at that round without a benchmark and with the best so far, and no step follows.
C10_ExtractionAndStop ==
    /\ [](last.op \in {"candidate", "no_candidate"} =>
             ExtractionAsClaimed(OrEmpty(final_text), cand_sql))
    /\ [][pc = "returned" /\ ~Truthy(cand_sql') =>
             /\ pc' = "done"
             /\ RoundState' = RoundState
             /\ UNCHANGED <<bench_calls, llm_calls, messages, it>>]_vars
    /\ [][pc # "done"]_vars

\* A second round ended with a text without fence and keyword, after the first
\* round had improved on the baseline.
C10_Witness ==
    /\ last.op = "no_candidate"
    /\ pc = "done"
    /\ it = 2
    /\ final_text = <<"x">>
    /\ best_report # NoReport

\* ------------------------------------------------------------------ claims, rounds

\* The step is a candidate benchmark that succeeded.
CandidateSucceeded == CandidateMeasured /\ last'.bench.ok

\* C11: in every round whose candidate benchmark succeeds, improve_pct is computed
\* as (reference - candidate) / reference * 100 against the reference the round
\* began with, and the run stops early exactly when it reaches the threshold;
\* for the reference 120 and the candidate 90 it is 25 and the candidate is adopted.
C11_ImprovementAgainstRoundReference ==
    /\ [][CandidateSucceeded =>
             /\ pc' # "raised"
             /\ "improve_pct" \in DOMAIN last'
             /\ last'.reference = base_ms
             /\ last'.improve_pct.num = (base_ms - last'.bench.median_ms) * 100
             /\ last'.improve_pct.den = base_ms
             /\ (pc' = "done") <=>
                    (last'.improve_pct.num >= cfg.min_improve_pct * last'.improve_pct.den)]_vars
    /\ [][(CandidateSucceeded /\ base_ms = 120 /\ last'.bench.median_ms = 90) =>
             /\ last'.improve_pct.num = 25 * last'.improve_pct.den
             /\ best_sql' = cand_sql'
             /\ (cfg.min_improve_pct <= 25 => pc' = "done")]_vars

\* The first gateway call of a round is due.
AtFirstCallOfRound == pc = "llm" /\ last.op = "start_round"

\* C12: at the first gateway call of every round the transcript holds only the
\* system prompt and that round's task messages, which embed the current best SQL
\* and the iteration settings; no record of an earlier round is in it.
C12_FreshTranscriptEachRound ==
    AtFirstCallOfRound =>
        /\ messages = <<SystemMessage, TaskMessage(best_sql, cfg.runs, cfg.warmup),
                        InstructionMessage>>
        /\ \A i \in 1..Len(messages) : ~IsAssistant(messages[i]) /\ ~IsToolResult(messages[i])

\* ------------------------------------------------------------------ claims, faults

\* C13: a fault of the gateway, a call that fails or a response that carries no
\* list of output items, is not swallowed: the exception leaves run_tool_loop,
\* which returns no (final_text, events) for that invocation.
C13_GatewayFaultPropagates ==
    last.op = "llm_fault" => pc = "raised"

\* C14: every optimization run ends in exactly one of two outcomes, the explicit
\* failure of a baseline benchmark that could not be established, or a best SQL
\* with its report; no run ends in any other way, whatever the rounds, the
\* threshold, the measured medians, the model's outputs and the benchmarks do.
C14_RunEndsInOneOfTwoOutcomes ==
    /\ [](pc # "raised")
    /\ <>(pc \in {"failed", "done"})
    /\ [](pc = "failed" => last.op = "baseline" /\ ~last.bench.ok)
    /\ [](pc = "done" => Truthy(best_sql) /\ pc # "failed")

\* ------------------------------------------------------------------ claims, tool provider

\* The catalog entries the claim lets a name match: schema and table for a name
\* of the form schema.table, the table in any schema for a name without dot.
MatchesAsClaimed(name) ==
    IF Len(name) >= 2
    THEN {t \in Catalog : t.schema = name[1] /\ t.table = SubSeq(name, 2, Len(name))}
    ELSE {t \in Catalog : t.table = name}

\* The last dispatch was table_exists with a name.
LastIsTableExists ==
    /\ last.op = "dispatch"
    /\ last.call.name = "table_exists"
    /\ last.call.arguments.wellformed

\* C16: table_exists(name) matches schema and table for a name schema.table and
\* the table in any schema otherwise; it returns ok = true with exists = true iff
\* a catalog entry matches, and exists = false, not an error, when none does.
C16_TableExistsMatching ==
    LastIsTableExists =>
        /\ pc # "raised"
        /\ last.result = [ok |-> TRUE, name |-> last.call.arguments.obj.name,
                          exists |-> MatchesAsClaimed(last.call.arguments.obj.name) # {}]

\* public.orders is absent although orders exists in other schemas.
C16_Witness ==
    /\ LastIsTableExists
    /\ last.call.arguments.obj.name = <<"public", "orders">>
    /\ last.result.ok
    /\ ~last.result.exists
    /\ MatchesAsClaimed(<<"orders">>) # {}

\* ------------------------------------------------------------------ claims, turns

IsMessageItem(m) == "type" \in DOMAIN m /\ m.type = "message"

\* The assistant records of a transcript.
AssistantsIn(msgs) == {i \in 1..Len(msgs) : IsAssistant(msgs[i])}

\* The items of the turn that ended the loop: the message items at the end of
\* the transcript, before the assistant record if there is one.
TurnItems ==
    LET n == IF messages # << >> /\ IsAssistant(messages[Len(messages)])
             THEN Len(messages) - 1 ELSE Len(messages)
        starts == {k \in 1..(n + 1) : \A i \in k..n : IsMessageItem(messages[i])}
        k == CHOOSE a \in starts : \A b \in starts : a <= b
    IN  SubSeq(messages, k, n)

\* The text fragments of message items: the output_text and text parts of a
\* content list, or a content that is a string.
RECURSIVE TextsOfParts(_)
TextsOfParts(parts) ==
    IF parts = << >> THEN << >>
    ELSE (IF Head(parts).type \in {"output_text", "text"} THEN <<Head(parts).text>> ELSE << >>)
            \o TextsOfParts(Tail(parts))
RECURSIVE FragmentsOfTurn(_)
FragmentsOfTurn(items) ==
    IF items = << >> THEN << >>
    ELSE (IF Head(items).content.kind = "str" THEN <<Head(items).content.text>>
          ELSE TextsOfParts(Head(items).content.parts))
            \o FragmentsOfTurn(Tail(items))

\* The newline-join of the non-empty fragments, null when it is empty.
JoinedNonEmpty(frags) ==
    LET j == JoinLines(SelectSeq(frags, LAMBDA t : t # << >>))
    IN  IF j = << >> THEN NoneVal ELSE j

\* The newline-join of the fragments that are not blank, without the white space
\* around it, null when it is empty.
JoinedNonBlank(frags) ==
    LET kept == SelectSeq(frags, LAMBDA t : \E i \in 1..Len(t) : ~IsSpace(t[i]))
        j == JoinLines(kept)
        inner == {i \in 1..Len(j) : ~IsSpace(j[i])}
    IN  IF inner = {} THEN NoneVal
        ELSE SubSeq(j, CHOOSE a \in inner : \A b \in inner : a <= b,
                       CHOOSE a \in inner : \A b \in inner : a >= b)

\* A turn without tool call ended the loop.
TerminalTurn == pc = "returned" /\ last.op = "llm"

\* Before the loop returns, and when it returns without a terminal turn, no text
\* was returned and no assistant record was appended; a terminal turn holds no
\* unanswered tool call.
ToolTurnsNeverTerminal ==
    /\ pc \in {"llm", "dispatch", "raised"} =>
          final_text = NoneVal /\ AssistantsIn(messages) = {}
    /\ (pc = "returned" /\ last.op # "llm") => AssistantsIn(messages) = {}
    /\ TerminalTurn => \A i \in Requests : ResultsFor(i) # {} /\ i < Len(messages) - Len(TurnItems)

\* C17, as stated: a turn with a tool call is never terminal, and the final text
\* of a terminal turn is the newline-join of its non-empty text fragments, null
\* if there are none, with one assistant record iff it is non-empty.
C17_FinalTextJoinsNonEmptyFragments ==
    /\ ToolTurnsNeverTerminal
    /\ TerminalTurn =>
          /\ final_text = JoinedNonEmpty(FragmentsOfTurn(TurnItems))
          /\ Cardinality(AssistantsIn(messages)) = (IF Truthy(final_text) THEN 1 ELSE 0)

\* C17, amended: a turn with a tool call is never terminal, and the final text
\* of a terminal turn is the newline-join of its text fragments that are not
\* blank, stripped of the white space around it, null if nothing is left, with
\* one assistant record, the last of the transcript, iff it is not null.
C17_FinalTextJoinsNonBlankFragments ==
    /\ ToolTurnsNeverTerminal
    /\ TerminalTurn =>
          /\ final_text = JoinedNonBlank(FragmentsOfTurn(TurnItems))
          /\ Cardinality(AssistantsIn(messages)) = (IF Truthy(final_text) THEN 1 ELSE 0)
          /\ Truthy(final_text) => messages[Len(messages)] = AssistantRecord(final_text)

\* A turn with a text and a tool call was followed by a terminal turn of two
\* message items whose blank and refusal parts are left out.
C17_Witness ==
    /\ TerminalTurn
    /\ \E i \in Requests : IsMessageItem(messages[i - 1])
    /\ Len(TurnItems) = 2
    /\ final_text = <<"x", "\n", "x", "\n", "<fence>sql", "select", "<fence>">>

\* ------------------------------------------------------------------ claims, event log

\* The records of the transcript that the current invocation of run_tool_loop
\* appended: the ones after the last user record.
OfInvocation ==
    LET users == {i \in 1..Len(messages) :
                     "role" \in DOMAIN messages[i] /\ messages[i].role = "user"}
        start == IF users = {} THEN 0 ELSE CHOOSE a \in users : \A b \in users : a >= b
    IN  SubSeq(messages, start + 1, Len(messages))

\* C18: the event log that run_tool_loop returns is a sequence of adjacent
\* (tool_call, tool_result) pairs with the same tool name, one pair for each tool
\* call of this invocation in the order the model issued them over all steps;
\* the tool results of the transcript are in the same order, and no event of an
\* earlier invocation is in the log.
C18_EventLogPairsInOrder ==
    pc = "returned" =>
        LET reqs == SelectSeq(OfInvocation, IsRequest)
            outs == SelectSeq(OfInvocation, IsToolResult)
        IN  /\ Len(events) = 2 * Len(reqs)
            /\ Len(outs) = Len(reqs)
            /\ \A k \in 1..Len(reqs) :
                  /\ events[2 * k - 1].kind = "tool_call"
                  /\ events[2 * k - 1].name = reqs[k].name
                  /\ events[2 * k].kind = "tool_result"
                  /\ events[2 * k].name = reqs[k].name
                  /\ outs[k].call_id = Identifier(reqs[k])
                  /\ outs[k].output = <<"json", events[2 * k].result>>

\* The second invocation returned one pair, for its own tool call, and the first
\* invocation had dispatched another tool.
C18_Witness ==
    /\ pc = "returned"
    /\ it = 2
    /\ Len(events) = 2
    /\ Cardinality(Requests) = 2
    /\ \E i \in Requests : messages[i].name # events[1].name

\* C19: a benchmark in which an execution takes longer than timeout_s comes back,
\* after the call, as a failed tool result (ok = false, budget exceeded) and not
\* as a benchmark record.
C19_TimeoutReportedAsFault ==
    (/\ last.op = "dispatch"
     /\ last.call.name = "benchmark"
     /\ LastDispatchReturned
     /\ last.result.ok) =>
        \A i \in 1..Len(last.result.elapsed_ms) :
            last.result.elapsed_ms[i] <= TimeoutOf(last.call.arguments.obj) * 1000

\* ------------------------------------------------------------------ claims, termination

\* The run has stopped: it ended, failed on the baseline, or an exception left it.
Stopped == pc \in {"done", "failed", "raised"}

\* What is left of the run, in lexicographic order: the rounds, the phase of the
\* round, the steps of the dialogue loop (a step counts twice, once before its
\* gateway call and once before its dispatches) and the pending tool calls.
Progress ==
    <<cfg.max_iters + 1 - it,
      CASE pc = "baseline" -> 5
        [] pc = "round" -> 4
        [] pc \in {"llm", "dispatch"} -> 3
        [] pc = "returned" -> 2
        [] OTHER -> 0,
      IF pc = "dispatch" THEN 2 * (cfg.max_tool_steps - step) - 1
      ELSE 2 * (cfg.max_tool_steps - step),
      Len(pending)>>

LexLess(a, b) == \E i \in 1..4 : a[i] < b[i] /\ \A j \in 1..(i - 1) : a[j] = b[j]

\* C20: an optimization run ends when every external call returns: every step
\* lowers what is left of the run, which is well-founded, and a step is possible
\* until the run has stopped; it runs at most max_iters rounds, makes at most
\* max_iters * max_tool_steps gateway calls and at most 1 + max_iters direct
\* benchmark calls, and once it has stopped it makes no gateway call and no
\* benchmark.
C20_RunTerminatesWithinBudgets ==
    /\ [](\A i \in 1..4 : Progress[i] \in Nat)
    /\ [][LexLess(Progress', Progress)]_vars
    /\ [](~Stopped => ENABLED <<Next>>_vars)
    /\ [](pc \in {"llm", "dispatch", "returned"} => it <= cfg.max_iters)
    /\ [](llm_calls <= cfg.max_iters * cfg.max_tool_steps)
    /\ [](bench_calls <= 1 + cfg.max_iters)
    /\ [][Stopped => UNCHANGED <<llm_calls, bench_calls, it, pc>>]_vars
    /\ [][(pc = "returned" /\ pc' = "done") => UNCHANGED llm_calls]_vars

\* A run used every round and every step: MaxIters rounds of MaxSteps gateway
\* calls each, the baseline benchmark and one candidate benchmark per round.
C20_Witness ==
    /\ pc = "done"
    /\ last.op = "rounds_exhausted"
    /\ cfg.max_iters = MaxIters
    /\ llm_calls = MaxIters * MaxSteps
    /\ bench_calls = 1 + MaxIters

\* ------------------------------------------------------------------ claims, no candidate

\* run_tool_loop returned because its budget ran out, or it returned null.
ReturnedWithoutText ==
    pc = "returned" /\ (last.op = "exhausted" \/ final_text = NoneVal)

\* C21: when the dialogue loop exhausts its step budget in a round, or returns
\* a null final text, no candidate is extracted (the sentinel holds no fenced
\* block and no keyword): the run stops at that round with the best SQL, the
\* reference and the report unchanged, and no candidate benchmark is run.
C21_ExhaustionYieldsNoCandidate ==
    /\ [](ReturnedWithoutText =>
             /\ last.op = "exhausted" => final_text = Sentinel
             /\ ExtractSqlFromModel(OrEmpty(final_text)) = NoneVal)
    /\ [][ReturnedWithoutText =>
             /\ pc' = "done"
             /\ last'.op = "no_candidate"
             /\ ~Truthy(cand_sql')
             /\ RoundState' = RoundState
             /\ UNCHANGED <<bench_calls, llm_calls, it, messages>>]_vars
    /\ [](ReturnedWithoutText => ENABLED <<NoCandidate>>_vars)

\* The first round used up its step budget on tool calls and the run stopped
\* with the input SQL after the baseline benchmark alone.
C21_Witness ==
    /\ pc = "done"
    /\ last.op = "no_candidate"
    /\ final_text = Sentinel
    /\ llm_calls = cfg.max_tool_steps
    /\ Len(events) = 2 * MaxSteps
    /\ best_sql = InputSql
    /\ base_ms = orig_ms
    /\ bench_calls = 1

\* ------------------------------------------------------------------ claims, transcript

IsSystem(m) == "role" \in DOMAIN m /\ m.role = "system"

\* The records a step appends to the transcript.
Added == SubSeq(messages', Len(messages) + 1, Len(messages'))

\* C22: over all rounds of a run the transcript is append-only: every step keeps
\* the records it finds as a prefix; the system record is the first record and
\* the only system record; a gateway call appends the items of its response
\* unmodified, before any tool result of that step, and a dispatch appends one
\* tool result.
C22_TranscriptAppendOnly ==
    /\ [][/\ Len(messages') >= Len(messages)
          /\ SubSeq(messages', 1, Len(messages)) = messages]_vars
    /\ [](/\ messages[1] = SystemMessage
          /\ \A i \in 2..Len(messages) : ~IsSystem(messages[i]))
    /\ [][(pc = "llm" /\ last'.op = "llm") =>
             LET n == IF Added # << >> /\ IsAssistant(Added[Len(Added)])
                      THEN Len(Added) - 1 ELSE Len(Added)
             IN  /\ \E r \in RunResponses(next_id) : SubSeq(Added, 1, n) = r
                 /\ n < Len(Added) => Added[Len(Added)].content = final_text']_vars
    /\ [][(pc = "dispatch" /\ pc' # "raised") =>
             /\ Len(Added) = 1
             /\ IsToolResult(Added[1])
             /\ \E i \in Requests : /\ Added[1].call_id = Identifier(messages[i])
                                    /\ ResultsFor(i) = {}]_vars
    /\ [][pc = "round" /\ pc' = "llm" =>
             Added = <<TaskMessage(best_sql, cfg.runs, cfg.warmup), InstructionMessage>>]_vars

\* In the second round a tool result follows the records of the first round,
\* which ended with an assistant record.
C22_Witness ==
    /\ it = 2
    /\ pc = "llm"
    /\ last.op = "dispatch"
    /\ IsToolResult(messages[Len(messages)])
    /\ \E i \in 2..Len(messages) : IsAssistant(messages[i])
    /\ Cardinality({i \in 1..Len(messages) :
                       "role" \in DOMAIN messages[i] /\ messages[i].role = "user"}) = 4

\* ------------------------------------------------------------------ claims, early stop

\* The step is a candidate benchmark that stops the run early, under a positive
\* threshold and with a positive reference.
StopsEarly ==
    /\ CandidateSucceeded
    /\ cfg.min_improve_pct > 0
    /\ base_ms > 0
    /\ pc' = "done"

\* C23: for a positive threshold and a positive reference, a run that stops early
\* because improve_pct reached the threshold has adopted the candidate of that
\* round: best_sql is the candidate, the reference is its measured median, and
\* best_report holds its benchmark and the improve_pct of the round.
C23_EarlyStopAdoptsCandidate ==
    /\ [][StopsEarly =>
             /\ last'.improve_pct.num >= cfg.min_improve_pct * last'.improve_pct.den
             /\ last'.bench.median_ms < base_ms
             /\ best_sql' = cand_sql'
             /\ best_sql' = ExtractSqlFromModel(OrEmpty(final_text))
             /\ base_ms' = last'.bench.median_ms
             /\ best_report'.benchmark = last'.bench
             /\ best_report'.improve_pct = last'.improve_pct
             /\ best_report'.improve_pct.num = (base_ms - base_ms') * 100
             /\ best_report'.improve_pct.den = base_ms]_vars
    /\ []((pc = "done" /\ last.op = "candidate" /\ cfg.min_improve_pct > 0) =>
             /\ best_sql = cand_sql
             /\ base_ms = last.bench.median_ms
             /\ best_report # NoReport
             /\ best_report.improve_pct = last.improve_pct)

\* The second round halved the reference 120 under the threshold 50 and the run
\* stopped with that candidate.
C23_Witness ==
    /\ pc = "done"
    /\ last.op = "candidate"
    /\ cfg.min_improve_pct = 50
    /\ it = 2
    /\ last.reference = 120
    /\ last.bench.median_ms = 60
    /\ best_sql = cand_sql
    /\ base_ms = 60
    /\ best_report.improve_pct = [num |-> 6000, den |-> 120]
====
